---------------------------- MODULE Spec2Model ----------------------------
(***************************************************************************)
(* A model of the pointer-input systems of bevy_mod_picking:               *)
(*                                                                         *)
(*   - update_pick_source_positions, get_inputs and window_to_viewport     *)
(*     (src/src/mouse.rs): the per-frame pick-source position updater;     *)
(*   - mouse_pick_events, get_cursor_position and update_cursor            *)
(*     (src/crates/bevy_picking_input/src/mouse.rs): the cursor location   *)
(*     synchronizer;                                                       *)
(*   - PointerBundle::new and add_default_pointers (src/src/lib.rs): the   *)
(*     pointer registry and its startup system.                            *)
(*                                                                         *)
(* Numbers.  An f32 coordinate is a fixed-point rational k / Denom, held   *)
(* as the integer k; a u32 or i32 pixel count n is the integer n, and      *)
(* F(n) is the f32 it converts to.  Rust's "as u32" and "as i32" casts and *)
(* the f32 remainder are modelled by what they do to such a value.         *)
(*                                                                         *)
(* Options.  None is the empty sequence and Some(x) the sequence <<x>>.    *)
(***************************************************************************)
EXTENDS Integers, Sequences, FiniteSets

(***************************************************************************)
(* Bounds of the model.                                                    *)
(***************************************************************************)
\* f32 coordinates are multiples of 1 / Denom.
Denom == 2
\* The most cursor-moved events one frame delivers.
MaxEvents == 2
\* The most touch contacts active in one frame.
MaxTouches == 1
\* The longest run of input-free frames that is counted.
MaxQuiet == 2
\* The side of the largest render target window_to_viewport is applied to.
MaxDim == 3
\* The most cursor entities the synchronizer's world holds.
MaxCursors == 3
\* The number of windows.
NumWindows == 2
\* The most custom pointers the application spawns before startup.
MaxCustomPointers == 2

None == << >>
Some(x) == << x >>
IsSome(o) == o # None
Unwrap(o) == o[1]

\* A vector's components.
X(v) == v[1]
Y(v) == v[2]

(***************************************************************************)
(* Number conversions.                                                     *)
(***************************************************************************)
\* n as f32, for a pixel count n.
F(n) == n * Denom

\* v as i32, for an f32 v: truncation towards zero.
AsI32(v) == IF v >= 0 THEN v \div Denom ELSE -((-v) \div Denom)

\* v as u32, for an f32 v: truncation, saturating at 0 for a negative value.
AsU32(v) == IF v <= 0 THEN 0 ELSE v \div Denom

\* Vec2::as_uvec2.
AsUVec2(p) == << AsU32(X(p)), AsU32(Y(p)) >>

\* a % b on f32: the remainder has the sign of the dividend.
FRem(a, b) == IF a >= 0 THEN a % b ELSE -((-a) % b)

\* i32::max.
Max(a, b) == IF a >= b THEN a ELSE b

(***************************************************************************)
(* Cameras.  A camera holds its render target, its optional viewport       *)
(* (physical position and size) and, once the target is known, the         *)
(* target's physical size.  The scale factor is 1: logical sizes equal     *)
(* physical sizes.                                                         *)
(***************************************************************************)
WindowTarget(w) == [kind |-> "Window", window |-> w]
ImageTarget == [kind |-> "Image", window |-> 0]

Camera(target, viewport, targetSize) ==
    [target |-> target, viewport |-> viewport, targetSize |-> targetSize]

Viewport(position, size) == [physical_position |-> position, physical_size |-> size]

\* Camera::physical_target_size.
PhysicalTargetSize(camera) == camera.targetSize

\* Camera::physical_viewport_size.
PhysicalViewportSize(camera) ==
    IF IsSome(camera.viewport)
    THEN Some(Unwrap(camera.viewport).physical_size)
    ELSE PhysicalTargetSize(camera)

\* Camera::physical_viewport_rect: (min, max) of the viewport in the target.
PhysicalViewportRect(camera) ==
    LET min == IF IsSome(camera.viewport)
               THEN Unwrap(camera.viewport).physical_position
               ELSE << 0, 0 >>
        size == PhysicalViewportSize(camera)
    IN  IF IsSome(size)
        THEN Some(<< min, << X(min) + X(Unwrap(size)), Y(min) + Y(Unwrap(size)) >> >>)
        ELSE None

\* Camera::logical_viewport_size, an f32 vector; None until the target is known.
LogicalViewportSize(camera) ==
    IF IsSome(camera.targetSize)
    THEN LET size == Unwrap(PhysicalViewportSize(camera))
         IN  Some(<< F(X(size)), F(Y(size)) >>)
    ELSE None

(***************************************************************************)
(* window_to_viewport: the position of the cursor in the camera's          *)
(* viewport, when the cursor is over the viewport.                         *)
(***************************************************************************)
\* A variant of UnmirrorY with a single remainder, which keeps the sign of
\* the window Y less min.y.
UnmirrorYNoWrap(window_y, min_y, vp_height) ==
    FRem(window_y - F(min_y), vp_height)

\* The Y of the result: the window Y less min.y, wrapped into [0, vp_height).
UnmirrorY(window_y, min_y, vp_height) ==
    FRem(FRem(window_y - F(min_y), vp_height) + vp_height, vp_height)

\* The bounds check on the truncated cursor and the mirrored Y.
InViewport(cursor_x, mirror_y, min, max) ==
    /\ cursor_x >= X(min)
    /\ mirror_y >= Y(min)
    /\ cursor_x < X(max)
    /\ mirror_y < Y(max)

window_to_viewport(camera, window_position) ==
    IF ~IsSome(PhysicalTargetSize(camera)) THEN None
    ELSE IF ~IsSome(PhysicalViewportRect(camera)) THEN None
    ELSE
      LET height == Y(Unwrap(PhysicalTargetSize(camera)))
          min == Unwrap(PhysicalViewportRect(camera))[1]
          max == Unwrap(PhysicalViewportRect(camera))[2]
          cursor == AsUVec2(window_position)
          mirror_y == Max(height - AsI32(Y(window_position)), 0)
      IN  IF InViewport(X(cursor), mirror_y, min, max)
          THEN LET vp_height == F(Y(Unwrap(PhysicalViewportSize(camera))))
                   unmirror_y == UnmirrorY(Y(window_position), Y(min), vp_height)
               IN  Some(<< X(window_position) - F(X(min)), unmirror_y >>)
          ELSE None

(***************************************************************************)
(* The pick-source position updater.                                       *)
(***************************************************************************)
\* RayCastMethod, the ray-cast state of a pick source.
Screenspace(p) == [method |-> "Screenspace", pos |-> Some(p)]
Transform == [method |-> "Transform", pos |-> None]

\* UpdatePicks, the update policy of a pick source.
EveryFrame(cached) == [kind |-> "EveryFrame", cached |-> Some(cached)]
OnMouseEvent == [kind |-> "OnMouseEvent", cached |-> None]

\* CursorMoved.
CursorMoved(id, position) == [id |-> id, position |-> position]

\* A variant of IterLast that takes the first element, as Iterator::next does.
IterFirst(seq) == IF seq = << >> THEN None ELSE Some(seq[1])

\* Iterator::last.
IterLast(seq) == IF seq = << >> THEN None ELSE Some(seq[Len(seq)])

\* A variant of CursorCandidate without the comparison of the event's window
\* id with the camera's window.
CursorCandidateAnyWindow(camera, cursor_moved) ==
    IF IsSome(camera.viewport)
    THEN LET pos == window_to_viewport(camera, cursor_moved.position)
         IN  IF IsSome(pos)
             THEN [skip |-> FALSE, cursor_latest |-> pos]
             ELSE [skip |-> TRUE, cursor_latest |-> None]
    ELSE [skip |-> FALSE, cursor_latest |-> Some(cursor_moved.position)]

\* The candidate position of a frame with a latest cursor-moved event: the
\* event's position when it is for the camera's window, passed through
\* window_to_viewport when the camera has a viewport.  The result is
\* [skip, cursor_latest]: skip stands for the early "return None".
CursorCandidate(camera, cursor_moved) ==
    IF camera.target.kind = "Window"
    THEN IF cursor_moved.id = camera.target.window
         THEN IF IsSome(camera.viewport)
              THEN LET pos == window_to_viewport(camera, cursor_moved.position)
                   IN  IF IsSome(pos)
                       THEN [skip |-> FALSE, cursor_latest |-> pos]
                       ELSE [skip |-> TRUE, cursor_latest |-> None]
              ELSE [skip |-> FALSE, cursor_latest |-> Some(cursor_moved.position)]
         ELSE [skip |-> FALSE, cursor_latest |-> None]
    ELSE [skip |-> FALSE, cursor_latest |-> None]

\* A variant of TouchCandidate that takes the raw position of the touch,
\* its Y not mirrored.
TouchCandidateUnmirrored(height, touches_input) ==
    LET touch == IterLast(touches_input)
    IN  IF IsSome(touch)
        THEN Some(<< X(Unwrap(touch)), Y(Unwrap(touch)) >>)
        ELSE None

\* The candidate position of a frame without cursor-moved events: the last
\* active touch, its Y mirrored against the logical viewport height.
TouchCandidate(height, touches_input) ==
    LET touch == IterLast(touches_input)
    IN  IF IsSome(touch)
        THEN Some(<< X(Unwrap(touch)), height - Y(Unwrap(touch)) >>)
        ELSE None

\* A variant of get_inputs that gives a pick source without UpdatePicks
\* component the policy EveryFrame((0, 0)) instead of skipping it.
GetInputsDefaultPolicy(option_camera, option_update_picks, cursor_last, touches_input) ==
    IF ~IsSome(option_camera) THEN None
    ELSE IF ~IsSome(LogicalViewportSize(Unwrap(option_camera))) THEN None
    ELSE
      LET camera == Unwrap(option_camera)
          height == Y(Unwrap(LogicalViewportSize(camera)))
          policy == IF IsSome(option_update_picks)
                    THEN Unwrap(option_update_picks)
                    ELSE EveryFrame(<< 0, 0 >>)
      IN  IF IsSome(cursor_last)
          THEN LET c == CursorCandidate(camera, Unwrap(cursor_last))
               IN  IF c.skip
                   THEN None
                   ELSE Some([update_picks |-> policy,
                              cursor_latest |-> c.cursor_latest])
          ELSE Some([update_picks |-> policy,
                     cursor_latest |-> TouchCandidate(height, touches_input)])

\* get_inputs: None when the pick source is skipped, or Some of the policy
\* and the frame's candidate position.
get_inputs(option_camera, option_update_picks, cursor_last, touches_input) ==
    IF ~IsSome(option_camera) THEN None
    ELSE IF ~IsSome(option_update_picks) THEN None
    ELSE IF ~IsSome(LogicalViewportSize(Unwrap(option_camera))) THEN None
    ELSE
      LET camera == Unwrap(option_camera)
          height == Y(Unwrap(LogicalViewportSize(camera)))
      IN  IF IsSome(cursor_last)
          THEN LET c == CursorCandidate(camera, Unwrap(cursor_last))
               IN  IF c.skip
                   THEN None
                   ELSE Some([update_picks |-> Unwrap(option_update_picks),
                              cursor_latest |-> c.cursor_latest])
          ELSE Some([update_picks |-> Unwrap(option_update_picks),
                     cursor_latest |-> TouchCandidate(height, touches_input)])

\* A variant of ApplyPolicy whose EveryFrame arm does nothing without a
\* candidate position, as the OnMouseEvent arm does.
ApplyPolicyNoReplay(cast_method, update_picks, cursor_latest) ==
    IF IsSome(cursor_latest)
    THEN [cast_method |-> Screenspace(Unwrap(cursor_latest)),
          update_picks |-> IF update_picks.kind = "EveryFrame"
                           THEN Some(EveryFrame(Unwrap(cursor_latest)))
                           ELSE Some(update_picks),
          written |-> TRUE]
    ELSE [cast_method |-> cast_method,
          update_picks |-> Some(update_picks),
          written |-> FALSE]

\* A variant of ApplyPolicy whose OnMouseEvent arm writes the origin without
\* a candidate position.
ApplyPolicyAlwaysWrites(cast_method, update_picks, cursor_latest) ==
    IF IsSome(cursor_latest)
    THEN [cast_method |-> Screenspace(Unwrap(cursor_latest)),
          update_picks |-> IF update_picks.kind = "EveryFrame"
                           THEN Some(EveryFrame(Unwrap(cursor_latest)))
                           ELSE Some(update_picks),
          written |-> TRUE]
    ELSE [cast_method |-> IF update_picks.kind = "EveryFrame"
                          THEN Screenspace(Unwrap(update_picks.cached))
                          ELSE Screenspace(<< 0, 0 >>),
          update_picks |-> Some(update_picks),
          written |-> TRUE]

\* A variant of ApplyPolicy whose EveryFrame arm writes a new position to
\* the ray-cast state and leaves the cache as it was.
ApplyPolicyStaleCache(cast_method, update_picks, cursor_latest) ==
    IF IsSome(cursor_latest)
    THEN [cast_method |-> Screenspace(Unwrap(cursor_latest)),
          update_picks |-> Some(update_picks),
          written |-> TRUE]
    ELSE [cast_method |-> IF update_picks.kind = "EveryFrame"
                          THEN Screenspace(Unwrap(update_picks.cached))
                          ELSE cast_method,
          update_picks |-> Some(update_picks),
          written |-> update_picks.kind = "EveryFrame"]

\* A variant of ApplyPolicy that caches a new position under either policy:
\* an OnMouseEvent pick source becomes EveryFrame of the position.
ApplyPolicyCachesAlways(cast_method, update_picks, cursor_latest) ==
    IF IsSome(cursor_latest)
    THEN [cast_method |-> Screenspace(Unwrap(cursor_latest)),
          update_picks |-> Some(EveryFrame(Unwrap(cursor_latest))),
          written |-> TRUE]
    ELSE [cast_method |-> IF update_picks.kind = "EveryFrame"
                          THEN Screenspace(Unwrap(update_picks.cached))
                          ELSE cast_method,
          update_picks |-> Some(update_picks),
          written |-> update_picks.kind = "EveryFrame"]

\* The policy match of update_pick_source_positions on one pick source whose
\* inputs are there: the new ray-cast state, the new policy, and whether the
\* ray-cast state was written.
ApplyPolicy(cast_method, update_picks, cursor_latest) ==
    IF update_picks.kind = "EveryFrame"
    THEN IF IsSome(cursor_latest)
         THEN [cast_method |-> Screenspace(Unwrap(cursor_latest)),
               update_picks |-> Some(EveryFrame(Unwrap(cursor_latest))),
               written |-> TRUE]
         ELSE [cast_method |-> Screenspace(Unwrap(update_picks.cached)),
               update_picks |-> Some(update_picks),
               written |-> TRUE]
    ELSE IF IsSome(cursor_latest)
         THEN [cast_method |-> Screenspace(Unwrap(cursor_latest)),
               update_picks |-> Some(update_picks),
               written |-> TRUE]
         ELSE [cast_method |-> cast_method,
               update_picks |-> Some(update_picks),
               written |-> FALSE]

\* The body of the loop of update_pick_source_positions, for one pick source:
\* what the policy match leaves (the pick source as it was, when get_inputs
\* skips it), and the candidate position the frame resolved for it, if any.
UpdatePickSource(cast_method, option_update_picks, option_camera, cursor_last, touches_input) ==
    LET inputs == get_inputs(option_camera, option_update_picks,
                             cursor_last, touches_input)
    IN  IF IsSome(inputs)
        THEN [applied |-> ApplyPolicy(cast_method, Unwrap(inputs).update_picks,
                                      Unwrap(inputs).cursor_latest),
              cursor_latest |-> Unwrap(inputs).cursor_latest]
        ELSE [applied |-> [cast_method |-> cast_method,
                           update_picks |-> option_update_picks,
                           written |-> FALSE],
              cursor_latest |-> None]

(***************************************************************************)
(* The world of the updater: the pick-source entities, each with its       *)
(* optional camera and its optional initial policy, and the frames' inputs.*)
(***************************************************************************)
Windows == 1 .. NumWindows

FullCamera(target) == Camera(target, None, Some(<< 4, 4 >>))
SplitCamera(target) ==
    Camera(target, Some(Viewport(<< 1, 1 >>, << 2, 2 >>)), Some(<< 4, 4 >>))
UnreadyCamera(target) == Camera(target, None, None)

PickSource(cast, option_camera, option_update_picks) ==
    [cast_method |-> cast, camera |-> option_camera, update_picks |-> option_update_picks]

Scene ==
    << PickSource(Transform, Some(FullCamera(WindowTarget(1))),
                  Some(EveryFrame(<< 0, 0 >>))),
       PickSource(Screenspace(<< 0, 0 >>), Some(FullCamera(WindowTarget(1))),
                  Some(OnMouseEvent)),
       PickSource(Transform, Some(SplitCamera(WindowTarget(2))),
                  Some(EveryFrame(<< 0, 0 >>))),
       PickSource(Screenspace(<< 0, 0 >>), Some(SplitCamera(WindowTarget(2))),
                  Some(OnMouseEvent)),
       PickSource(Transform, Some(FullCamera(ImageTarget)),
                  Some(EveryFrame(<< 0, 0 >>))),
       PickSource(Transform, None, Some(EveryFrame(<< 0, 0 >>))),
       PickSource(Transform, Some(FullCamera(WindowTarget(1))), None),
       PickSource(Transform, Some(UnreadyCamera(WindowTarget(1))),
                  Some(OnMouseEvent)) >>

Sources == DOMAIN Scene

\* The window positions of the cursor-moved events, and the raw positions of
\* the touch contacts.
CursorSamples == { << F(2), F(2) >>, << F(0), F(3) >> }
TouchSamples == { << F(1), F(1) >>, << F(3), F(0) >> }

CursorEvents == { CursorMoved(w, p) : w \in Windows, p \in CursorSamples }

\* The sequences of at most n elements of a set.
SeqsUpTo(set, n) == UNION { [1 .. k -> set] : k \in 0 .. n }

VARIABLES
    cast_method,    \* pick source -> its ray-cast state (PickingCamera.cast_method)
    update_picks,   \* pick source -> its optional policy (UpdatePicks)
    cursor,         \* the cursor-moved events of the frame, oldest first
    touches,        \* the active touch contacts, as Touches iterates them
    frame,          \* whether the updater ran this frame, and the state before it
    resolved,       \* pick source -> the last candidate position resolved for it
    quiet,          \* the length of the current run of input-free frames
    w2v,            \* one application of window_to_viewport: its input and result
    body,           \* one pass of the updater's loop body: its input and result
    mode,           \* InputPluginSettings.mode of the cursor synchronizer
    windows,        \* window -> the cursor position the window reports, if any
    moved,          \* whether a cursor-moved event is unread at the tick
    left,           \* whether a cursor-left event is unread at the tick
    cursors,        \* the cursor entities, as the query iterates them
    tick,           \* whether the synchronizer ran this tick, and what it did
    worked,         \* whether a tick has gone past the early return
    observed,       \* whether a tick has read a cursor position from a window
    pointers,       \* the pointer entities of the world, in spawn order
    commands,       \* the spawn commands add_default_pointers has queued
    startup,        \* where add_default_pointers stands: "start", "loop", "done"
                    \* ("idle" when the registry is at rest)
    slot,           \* the loop variable i of add_default_pointers
    pending,        \* the pick sources the running frame has still to process
    passes,         \* pick source -> the passes of the loop body over it this frame
    snapshot        \* cursor_last, as the running frame read it before its loop

updaterVars == << cast_method, update_picks, cursor, touches, frame, resolved, quiet >>
w2vVars == << w2v >>
bodyVars == << body >>
syncVars == << mode, windows, moved, left, cursors, tick, worked, observed >>
pointerVars == << pointers, commands, startup, slot >>
orderVars == << pending, passes, snapshot >>

NoFrame == [ran |-> FALSE, prev_cast |-> << >>, prev_picks |-> << >>, written |-> << >>]

UpdaterInit ==
    /\ cast_method = [s \in Sources |-> Scene[s].cast_method]
    /\ update_picks = [s \in Sources |-> Scene[s].update_picks]
    /\ cursor = << >>
    /\ touches = << >>
    /\ frame = NoFrame
    /\ resolved = [s \in Sources |-> None]
    /\ quiet = 0

\* The window system sends a cursor-moved event before the updater runs.
SendCursorMoved ==
    /\ ~frame.ran
    /\ Len(cursor) < MaxEvents
    /\ \E e \in CursorEvents : cursor' = Append(cursor, e)
    /\ UNCHANGED << cast_method, update_picks, touches, frame, resolved, quiet >>
    /\ UNCHANGED << w2vVars, bodyVars, syncVars, pointerVars, orderVars >>

\* A touch contact starts before the updater runs.
TouchPressed ==
    /\ ~frame.ran
    /\ Len(touches) < MaxTouches
    /\ \E p \in TouchSamples : touches' = Append(touches, p)
    /\ UNCHANGED << cast_method, update_picks, cursor, frame, resolved, quiet >>
    /\ UNCHANGED << w2vVars, bodyVars, syncVars, pointerVars, orderVars >>

\* A touch contact ends before the updater runs.
TouchReleased ==
    /\ ~frame.ran
    /\ \E i \in 1 .. Len(touches) :
         touches' = SubSeq(touches, 1, i - 1) \o SubSeq(touches, i + 1, Len(touches))
    /\ UNCHANGED << cast_method, update_picks, cursor, frame, resolved, quiet >>
    /\ UNCHANGED << w2vVars, bodyVars, syncVars, pointerVars, orderVars >>

\* One run of the system update_pick_source_positions over the frame's
\* cursor-moved events and the active touches.
update_pick_source_positions ==
    LET cursor_last == IterLast(cursor)
        out == [s \in Sources |->
                  UpdatePickSource(cast_method[s], update_picks[s],
                                   Scene[s].camera, cursor_last, touches)]
    IN  /\ ~frame.ran
        /\ cast_method' = [s \in Sources |-> out[s].applied.cast_method]
        /\ update_picks' = [s \in Sources |-> out[s].applied.update_picks]
        /\ frame' = [ran |-> TRUE,
                     prev_cast |-> cast_method, prev_picks |-> update_picks,
                     written |-> [s \in Sources |-> out[s].applied.written]]
        /\ resolved' = [s \in Sources |->
                          IF IsSome(out[s].cursor_latest)
                          THEN out[s].cursor_latest
                          ELSE resolved[s]]
        /\ quiet' = IF cursor = << >> /\ touches = << >>
                    THEN (IF quiet < MaxQuiet THEN quiet + 1 ELSE quiet)
                    ELSE 0
        /\ UNCHANGED << cursor, touches >>
        /\ UNCHANGED << w2vVars, bodyVars, syncVars, pointerVars, orderVars >>

\* The frame ends: the events the updater has read are dropped; the touch
\* contacts stay active.
NextFrame ==
    /\ frame.ran
    /\ cursor' = << >>
    /\ frame' = NoFrame
    /\ UNCHANGED << cast_method, update_picks, touches, resolved, quiet >>
    /\ UNCHANGED << w2vVars, bodyVars, syncVars, pointerVars, orderVars >>

(***************************************************************************)
(* The updater, one pass of its loop at a time.  A frame reads cursor_last *)
(* once, then passes over the items of the query; the query yields each    *)
(* item once, and the order in which the items are taken is left open, as  *)
(* it is for a scheduler that spreads them over threads.                   *)
(***************************************************************************)
\* A variant of StepPickSource that keeps the cached position in one place
\* for all pick sources: a new position is cached for every EveryFrame pick
\* source at once.
StepPickSourceSharedCache(casts, picks, s, cursor_last, touches_input) ==
    LET out == UpdatePickSource(casts[s], picks[s], Scene[s].camera,
                                cursor_last, touches_input)
        shared == /\ IsSome(out.applied.update_picks)
                  /\ Unwrap(out.applied.update_picks).kind = "EveryFrame"
    IN  [cast_method |-> [casts EXCEPT ![s] = out.applied.cast_method],
         update_picks |->
             [t \in Sources |->
                 IF t = s THEN out.applied.update_picks
                 ELSE IF shared /\ IsSome(picks[t])
                                /\ Unwrap(picks[t]).kind = "EveryFrame"
                      THEN out.applied.update_picks
                      ELSE picks[t]],
         written |-> out.applied.written]

\* One pass of the loop body, over the pick source s of the world: the
\* world after the pass, and whether the pass wrote the ray-cast state.
StepPickSource(casts, picks, s, cursor_last, touches_input) ==
    LET out == UpdatePickSource(casts[s], picks[s], Scene[s].camera,
                                cursor_last, touches_input)
    IN  [cast_method |-> [casts EXCEPT ![s] = out.applied.cast_method],
         update_picks |-> [picks EXCEPT ![s] = out.applied.update_picks],
         written |-> out.applied.written]

\* The worlds a frame may start in: the scene as it is configured, the scene
\* after a frame that gave every pick source the position (1, 1), and the
\* scene with ray-cast states that differ from the cached positions.
OrderWorlds ==
    { [s \in Sources |-> [cast_method |-> Scene[s].cast_method,
                          update_picks |-> Scene[s].update_picks]],
      [s \in Sources |->
          [cast_method |-> Screenspace(<< F(1), F(1) >>),
           update_picks |-> IF Scene[s].update_picks = Some(EveryFrame(<< 0, 0 >>))
                            THEN Some(EveryFrame(<< F(1), F(1) >>))
                            ELSE Scene[s].update_picks]],
      [s \in Sources |-> [cast_method |-> Screenspace(<< F(2), F(2) >>),
                          update_picks |-> Scene[s].update_picks]] }

\* The cursor-moved events of a frame: none, or one.
OrderCursors == { << >> } \cup { << e >> : e \in CursorEvents }

OrderIdle ==
    /\ pending = {}
    /\ passes = [s \in Sources |-> 0]
    /\ snapshot = None

OrderInit ==
    /\ \E world \in OrderWorlds :
         /\ cast_method = [s \in Sources |-> world[s].cast_method]
         /\ update_picks = [s \in Sources |-> world[s].update_picks]
    /\ cursor \in OrderCursors
    /\ touches \in SeqsUpTo(TouchSamples, MaxTouches)
    /\ frame = NoFrame
    /\ resolved = [s \in Sources |-> None]
    /\ quiet = 0
    /\ OrderIdle

\* The system starts a frame: it reads the last cursor-moved event, and every
\* item of the query is still to come.
StartFrame ==
    /\ ~frame.ran
    /\ pending = {}
    /\ snapshot' = IterLast(cursor)
    /\ pending' = Sources
    /\ passes' = [s \in Sources |-> 0]
    /\ frame' = [ran |-> TRUE,
                 prev_cast |-> cast_method, prev_picks |-> update_picks,
                 written |-> [s \in Sources |-> FALSE]]
    /\ UNCHANGED << cast_method, update_picks, cursor, touches, resolved, quiet >>
    /\ UNCHANGED << w2vVars, bodyVars, syncVars, pointerVars >>

\* The loop body runs over one of the pick sources still to come.
UpdateOne(s) ==
    /\ frame.ran
    /\ s \in pending
    /\ LET step == StepPickSource(cast_method, update_picks, s, snapshot, touches)
       IN  /\ cast_method' = step.cast_method
           /\ update_picks' = step.update_picks
           /\ frame' = [frame EXCEPT !.written[s] = step.written]
    /\ pending' = pending \ { s }
    /\ passes' = [passes EXCEPT ![s] = @ + 1]
    /\ UNCHANGED << cursor, touches, resolved, quiet, snapshot >>
    /\ UNCHANGED << w2vVars, bodyVars, syncVars, pointerVars >>

\* The loop is over and the frame ends.
EndFrame ==
    /\ pending = {}
    /\ NextFrame

(***************************************************************************)
(* window_to_viewport as a function: one camera and one window position    *)
(* are drawn, and the function is applied to them.                         *)
(***************************************************************************)
\* The viewport rectangles inside a target of the given size.
ViewportsIn(width, height) ==
    { Viewport(<< x0, y0 >>, << x1 - x0, y1 - y0 >>) :
        x0 \in 0 .. width, x1 \in 0 .. width, y0 \in 0 .. height, y1 \in 0 .. height }

GridCameras ==
    UNION { { Camera(WindowTarget(1), Some(v), Some(<< MaxDim, h >>)) :
                v \in { u \in ViewportsIn(MaxDim, h) :
                          X(u.physical_size) > 0 /\ Y(u.physical_size) > 0 } }
            \cup { Camera(WindowTarget(1), None, Some(<< MaxDim, h >>)) } :
            h \in 1 .. MaxDim }

\* The camera of the documented scenario: viewport min (100, 50), max
\* (300, 250), in a target of height 300.
ScenarioCamera ==
    Camera(WindowTarget(1), Some(Viewport(<< 100, 50 >>, << 200, 200 >>)),
           Some(<< 300, 300 >>))

W2VCameras == GridCameras \cup { ScenarioCamera, UnreadyCamera(WindowTarget(1)) }

\* Window positions on the grid of multiples of 1 / Denom, from one pixel
\* left of and above the target to one pixel past it.
GridPositions ==
    { << x, y >> : x \in -Denom .. F(MaxDim + 1), y \in -Denom .. F(MaxDim + 1) }

ScenarioPositions ==
    { << F(150), F(100) >>, << F(50), F(100) >>,
      << F(150), F(50) + 1 >>, << F(150), F(250) + 1 >> }

W2VPositions == GridPositions \cup ScenarioPositions

W2VIdle ==
    w2v = [camera |-> ScenarioCamera, window_position |-> << 0, 0 >>,
           out |-> None, done |-> FALSE]

W2VInit ==
    \E camera \in W2VCameras, window_position \in W2VPositions :
        w2v = [camera |-> camera, window_position |-> window_position,
               out |-> None, done |-> FALSE]

W2VApply ==
    /\ ~w2v.done
    /\ w2v' = [w2v EXCEPT !.out = window_to_viewport(w2v.camera, w2v.window_position),
                          !.done = TRUE]
    /\ UNCHANGED << updaterVars, bodyVars, syncVars, pointerVars, orderVars >>

(***************************************************************************)
(* The loop body of update_pick_source_positions as a function: one pick   *)
(* source, its optional camera and policy, and one frame's input snapshot  *)
(* are drawn, and the loop body is applied to them.                        *)
(***************************************************************************)
\* The camera and the touch contact of the documented touch scenario: a
\* logical viewport height of 400 and a contact at raw (10, 20).
TouchScenarioCamera == Camera(WindowTarget(1), None, Some(<< 640, 400 >>))
TouchScenarioContact == << F(10), F(20) >>

BodyCameras ==
    { None, Some(FullCamera(WindowTarget(1))), Some(SplitCamera(WindowTarget(2))),
      Some(FullCamera(ImageTarget)), Some(UnreadyCamera(WindowTarget(1))),
      Some(TouchScenarioCamera) }

BodyPolicies ==
    { None, Some(OnMouseEvent), Some(EveryFrame(<< 0, 0 >>)),
      Some(EveryFrame(<< F(1), F(1) >>)) }

BodyCasts == { Transform, Screenspace(<< 0, 0 >>), Screenspace(<< F(1), F(1) >>) }

BodyTouches == SeqsUpTo(TouchSamples \cup { TouchScenarioContact }, MaxTouches)

BodyIdle ==
    body = [cast_method |-> Transform, update_picks |-> None, camera |-> None,
            cursor_last |-> None, touches |-> << >>,
            out |-> None, done |-> FALSE]

BodyInit ==
    \E cast \in BodyCasts, policy \in BodyPolicies, camera \in BodyCameras,
       cursor_last \in { None } \cup { Some(e) : e \in CursorEvents },
       touches_input \in BodyTouches :
        body = [cast_method |-> cast, update_picks |-> policy, camera |-> camera,
                cursor_last |-> cursor_last, touches |-> touches_input,
                out |-> None, done |-> FALSE]

BodyApply ==
    /\ ~body.done
    /\ body' = [body EXCEPT
                  !.out = Some(UpdatePickSource(body.cast_method, body.update_picks,
                                                body.camera, body.cursor_last,
                                                body.touches)),
                  !.done = TRUE]
    /\ UNCHANGED << updaterVars, w2vVars, syncVars, pointerVars, orderVars >>

(***************************************************************************)
(* The cursor location synchronizer.                                       *)
(***************************************************************************)
\* Location.
Location(position, target) == [position |-> position, target |-> target]

\* CursorBundle::new.
CursorBundle(id, location, is_clicked) ==
    [id |-> id, location |-> location, is_clicked |-> is_clicked]

\* CursorId::is_mouse.
is_mouse(id) == id = "Mouse"

\* A variant of get_cursor_position that keeps scanning and returns the
\* location of the cursor in the last window that reports a cursor position.
GetCursorPositionLastWindow(wins) ==
    LET with == { w \in DOMAIN wins : IsSome(wins[w]) }
    IN  IF with = {}
        THEN None
        ELSE LET window == CHOOSE w \in with : \A v \in with : w >= v
             IN  Some(Location(Unwrap(wins[window]), WindowTarget(window)))

\* get_cursor_position: the location of the cursor in the first window that
\* reports a cursor position.
get_cursor_position(wins) ==
    LET with == { w \in DOMAIN wins : IsSome(wins[w]) }
    IN  IF with = {}
        THEN None
        ELSE LET window == CHOOSE w \in with : \A v \in with : w <= v
             IN  Some(Location(Unwrap(wins[window]), WindowTarget(window)))

\* A variant of update_cursor that spawns the mouse cursor only once there is
\* a location to give it.
UpdateCursorWhenLocated(entities, new_location) ==
    LET stale == { i \in 1 .. Len(entities) :
                     is_mouse(entities[i].id) /\ entities[i].location # new_location }
    IN  IF stale # {}
        THEN LET i == CHOOSE i \in stale : \A j \in stale : i <= j
             IN  [entities EXCEPT ![i].location = new_location]
        ELSE IF IsSome(new_location)
             THEN Append(entities, CursorBundle("Mouse", new_location, FALSE))
             ELSE entities

\* A variant of update_cursor whose scan does not look at the cursor id: the
\* first cursor of any kind whose location differs is overwritten.
UpdateCursorAnyId(entities, new_location) ==
    LET stale == { i \in 1 .. Len(entities) : entities[i].location # new_location }
    IN  IF stale # {}
        THEN LET i == CHOOSE i \in stale : \A j \in stale : i <= j
             IN  [entities EXCEPT ![i].location = new_location]
        ELSE Append(entities, CursorBundle("Mouse", new_location, FALSE))

\* update_cursor: the first mouse cursor whose location differs from the new
\* one is overwritten; when the scan overwrites nothing, a mouse cursor is
\* spawned with the new location.
update_cursor(entities, new_location) ==
    LET stale == { i \in 1 .. Len(entities) :
                     is_mouse(entities[i].id) /\ entities[i].location # new_location }
    IN  IF stale # {}
        THEN LET i == CHOOSE i \in stale : \A j \in stale : i <= j
             IN  [entities EXCEPT ![i].location = new_location]
        ELSE Append(entities, CursorBundle("Mouse", new_location, FALSE))

\* A variant of Skipped that never takes the early return, as if the system
\* ran in the continuous mode whatever the settings say.
SkippedNever(update_mode, move_is_empty, leave_is_empty) == FALSE

\* The early return of mouse_pick_events.
Skipped(update_mode, move_is_empty, leave_is_empty) ==
    update_mode = "OnEvent" /\ move_is_empty /\ leave_is_empty

\* The cursor positions the windows report, and the worlds the synchronizer
\* starts in: no mouse cursor, with or without cursors of other kinds.
WindowSamples == { << F(1), F(2) >>, << F(3), F(0) >> }
InitialCursors ==
    { << >>,
      << CursorBundle("Touch", None, FALSE) >>,
      << CursorBundle("Custom", Some(Location(<< F(1), F(2) >>, WindowTarget(1))), FALSE) >> }

NoTick == [ran |-> FALSE, skipped |-> FALSE, new_location |-> None, prev |-> << >>]

SyncIdle ==
    /\ mode = "OnEvent"
    /\ windows = [w \in Windows |-> None]
    /\ moved = FALSE
    /\ left = FALSE
    /\ cursors = << >>
    /\ tick = NoTick
    /\ worked = FALSE
    /\ observed = FALSE

SyncInit ==
    /\ mode \in { "OnEvent", "Continuous" }
    /\ windows \in [Windows -> { None } \cup { Some(p) : p \in WindowSamples }]
    /\ moved = FALSE
    /\ left = FALSE
    /\ cursors \in InitialCursors
    /\ tick = NoTick
    /\ worked = FALSE
    /\ observed = FALSE

\* The cursor moves in a window: the window reports the position and a
\* cursor-moved event is sent.
CursorMovedIn ==
    /\ ~tick.ran
    /\ \E w \in Windows, p \in WindowSamples :
         windows' = [windows EXCEPT ![w] = Some(p)]
    /\ moved' = TRUE
    /\ UNCHANGED << mode, left, cursors, tick, worked, observed >>
    /\ UNCHANGED << updaterVars, w2vVars, bodyVars, pointerVars, orderVars >>

\* The cursor leaves a window: the window reports no position and a
\* cursor-left event is sent.
CursorLeftWindow ==
    /\ ~tick.ran
    /\ \E w \in Windows :
         /\ IsSome(windows[w])
         /\ windows' = [windows EXCEPT ![w] = None]
    /\ left' = TRUE
    /\ UNCHANGED << mode, moved, cursors, tick, worked, observed >>
    /\ UNCHANGED << updaterVars, w2vVars, bodyVars, pointerVars, orderVars >>

\* One tick of the system mouse_pick_events, the spawn command it queued
\* applied at the end of the tick.
mouse_pick_events ==
    /\ ~tick.ran
    /\ IF Skipped(mode, ~moved, ~left)
       THEN /\ tick' = [ran |-> TRUE, skipped |-> TRUE,
                        new_location |-> None, prev |-> cursors]
            /\ UNCHANGED << cursors, worked, observed >>
       ELSE LET try_cursor == get_cursor_position(windows)
                after == update_cursor(cursors, try_cursor)
            IN  /\ Len(after) <= MaxCursors
                /\ cursors' = after
                /\ tick' = [ran |-> TRUE, skipped |-> FALSE,
                            new_location |-> try_cursor, prev |-> cursors]
                /\ worked' = TRUE
                /\ observed' = (observed \/ IsSome(try_cursor))
    /\ UNCHANGED << mode, windows, moved, left >>
    /\ UNCHANGED << updaterVars, w2vVars, bodyVars, pointerVars, orderVars >>

\* The tick ends: the events of the tick are dropped.
NextTick ==
    /\ tick.ran
    /\ tick' = NoTick
    /\ moved' = FALSE
    /\ left' = FALSE
    /\ UNCHANGED << mode, windows, cursors, worked, observed >>
    /\ UNCHANGED << updaterVars, w2vVars, bodyVars, pointerVars, orderVars >>

(***************************************************************************)
(* The pointer registry: PointerBundle::new and the startup system         *)
(* add_default_pointers.  The system queues its spawn commands, which are  *)
(* applied to the world when the system has returned.                      *)
(***************************************************************************)
\* The end of the range 0..30 of touch pointer ids.
MaxTouchSlots == 30

\* PointerId.
MousePointer == [kind |-> "Mouse", n |-> 0]
TouchPointer(i) == [kind |-> "Touch", n |-> i]
CustomPointer(u) == [kind |-> "Custom", n |-> u]

\* PointerLocation::default(), PointerPress::default() and
\* PointerInteraction::default(): no location, no button pressed, no
\* interaction tracked.
PointerLocationDefault == [location |-> None]
PointerPressDefault == [is_pressed |-> FALSE]
PointerInteractionDefault == [map |-> << >>]

\* PointerBundle::new.
PointerBundle(id) ==
    [id |-> id,
     location |-> PointerLocationDefault,
     click |-> PointerPressDefault,
     interaction |-> PointerInteractionDefault]

\* A variant of TouchSlots for the inclusive range 0..=30.
TouchSlotsInclusive == 0 .. MaxTouchSlots

\* The range 0..30 of the loop of add_default_pointers.
TouchSlots == 0 .. (MaxTouchSlots - 1)

\* The custom pointers an application may have spawned before startup: the
\* k-th has id Custom(k), and a location or none.
CustomPointerAt(k, located) ==
    [PointerBundle(CustomPointer(k)) EXCEPT
        !.location = IF located
                     THEN [location |-> Some(Location(<< F(1), F(2) >>, WindowTarget(1)))]
                     ELSE PointerLocationDefault]

InitialPointers ==
    UNION { { [k \in 1 .. n |-> CustomPointerAt(k, located[k])] :
                located \in [1 .. n -> BOOLEAN] } : n \in 0 .. MaxCustomPointers }

PointersIdle ==
    /\ pointers = << >>
    /\ commands = << >>
    /\ startup = "idle"
    /\ slot = 0

PointersInit ==
    /\ pointers \in InitialPointers
    /\ commands = << >>
    /\ startup = "start"
    /\ slot = 0

\* add_default_pointers, its first statement: the mouse pointer is queued.
SpawnMousePointer ==
    /\ startup = "start"
    /\ commands' = Append(commands, PointerBundle(MousePointer))
    /\ startup' = "loop"
    /\ slot' = 0
    /\ UNCHANGED pointers
    /\ UNCHANGED << updaterVars, w2vVars, bodyVars, syncVars, orderVars >>

\* add_default_pointers, one iteration of its loop: the touch pointer of the
\* slot is queued.
SpawnTouchPointer ==
    /\ startup = "loop"
    /\ slot \in TouchSlots
    /\ commands' = Append(commands, PointerBundle(TouchPointer(slot)))
    /\ slot' = slot + 1
    /\ UNCHANGED << pointers, startup >>
    /\ UNCHANGED << updaterVars, w2vVars, bodyVars, syncVars, orderVars >>

\* add_default_pointers returns when the range is exhausted, and the queued
\* commands are applied to the world in the order they were queued.
ApplyCommands ==
    /\ startup = "loop"
    /\ slot \notin TouchSlots
    /\ pointers' = pointers \o commands
    /\ commands' = << >>
    /\ startup' = "done"
    /\ UNCHANGED slot
    /\ UNCHANGED << updaterVars, w2vVars, bodyVars, syncVars, orderVars >>

(***************************************************************************)
(* The specifications: the updater, the function window_to_viewport, the   *)
(* updater's loop body as a function, and the cursor synchronizer, each    *)
(* with the others at rest.                                                *)
(***************************************************************************)
vars == << updaterVars, w2vVars, bodyVars, syncVars, pointerVars, orderVars >>

Init == UpdaterInit /\ W2VIdle /\ BodyIdle /\ SyncIdle /\ PointersIdle /\ OrderIdle

Next ==
    \/ SendCursorMoved
    \/ TouchPressed
    \/ TouchReleased
    \/ update_pick_source_positions
    \/ NextFrame

Spec == Init /\ [][Next]_vars

InitW2V == UpdaterInit /\ W2VInit /\ BodyIdle /\ SyncIdle /\ PointersIdle /\ OrderIdle

NextW2V == W2VApply

SpecW2V == InitW2V /\ [][NextW2V]_vars

InitBody == UpdaterInit /\ W2VIdle /\ BodyInit /\ SyncIdle /\ PointersIdle /\ OrderIdle

NextBody == BodyApply

SpecBody == InitBody /\ [][NextBody]_vars

InitSync == UpdaterInit /\ W2VIdle /\ BodyIdle /\ SyncInit /\ PointersIdle /\ OrderIdle

NextSync ==
    \/ CursorMovedIn
    \/ CursorLeftWindow
    \/ mouse_pick_events
    \/ NextTick

SpecSync == InitSync /\ [][NextSync]_vars

InitPointers == UpdaterInit /\ W2VIdle /\ BodyIdle /\ SyncIdle /\ PointersInit /\ OrderIdle

NextPointers ==
    \/ SpawnMousePointer
    \/ SpawnTouchPointer
    \/ ApplyCommands

SpecPointers == InitPointers /\ [][NextPointers]_vars

InitOrder == OrderInit /\ W2VIdle /\ BodyIdle /\ SyncIdle /\ PointersIdle

NextOrder ==
    \/ StartFrame
    \/ \E s \in Sources : UpdateOne(s)
    \/ EndFrame

SpecOrder == InitOrder /\ [][NextOrder]_vars

(***************************************************************************)
(* Properties of the updater.                                              *)
(***************************************************************************)
\* The pick source has a camera and a policy, and its camera is ready.
Ready(s) ==
    /\ IsSome(Scene[s].camera)
    /\ IsSome(Scene[s].update_picks)
    /\ IsSome(LogicalViewportSize(Unwrap(Scene[s].camera)))

\* The policy of the pick source before the frame's run was of this kind.
HadPolicy(s, kind) ==
    /\ IsSome(frame.prev_picks[s])
    /\ Unwrap(frame.prev_picks[s]).kind = kind

\* The position EveryFrame carried before the frame's run.
PrevCached(s) == Unwrap(Unwrap(frame.prev_picks[s]).cached)

\* The frame had neither a cursor-moved event nor an active touch.
QuietFrame == frame.ran /\ cursor = << >> /\ touches = << >>

\* C1: under EveryFrame with a ready camera, after each frame of a run of
\* frames without cursor-moved event and without active touch, the ray-cast
\* state is Screenspace(c) for the cached position c, the cache is still c,
\* and c is the last position resolved for the pick source, if any was.
C1_EveryFrameReplaysCache ==
    (QuietFrame /\ quiet >= 1) =>
        \A s \in Sources :
            (Ready(s) /\ HadPolicy(s, "EveryFrame")) =>
                /\ cast_method[s] = Screenspace(PrevCached(s))
                /\ update_picks[s] = frame.prev_picks[s]
                /\ (IsSome(resolved[s]) => resolved[s] = Some(PrevCached(s)))

\* C1 witness: the second input-free frame in a row, after an event was
\* resolved to a position other than the initial one.
C1_Witness ==
    /\ QuietFrame
    /\ quiet >= 2
    /\ resolved[1] = Some(<< F(2), F(2) >>)
    /\ cast_method[1] = Screenspace(<< F(2), F(2) >>)
    /\ update_picks[1] = Some(EveryFrame(<< F(2), F(2) >>))

\* C2 as stated: under OnMouseEvent, a frame without cursor-moved event
\* writes nothing to the pick source, whatever touches are active.
C2_Original ==
    (frame.ran /\ cursor = << >>) =>
        \A s \in Sources :
            HadPolicy(s, "OnMouseEvent") =>
                /\ ~frame.written[s]
                /\ cast_method[s] = frame.prev_cast[s]

\* C2, amended: under OnMouseEvent, a frame without cursor-moved event and
\* without active touch writes nothing to the pick source: its ray-cast
\* state and its policy are those of before the frame.
C2_OnMouseEventNoWrite ==
    QuietFrame =>
        \A s \in Sources :
            HadPolicy(s, "OnMouseEvent") =>
                /\ ~frame.written[s]
                /\ cast_method[s] = frame.prev_cast[s]
                /\ update_picks[s] = frame.prev_picks[s]

\* C2 witness: an input-free frame leaves an OnMouseEvent pick source at the
\* position an earlier event gave it.
C2_Witness ==
    /\ QuietFrame
    /\ ~frame.written[2]
    /\ cast_method[2] = Screenspace(<< F(2), F(2) >>)
    /\ frame.prev_cast[2] = cast_method[2]

\* The frame's latest cursor-moved event is not for the window of the pick
\* source's camera: another window's, or the camera renders to an image.
LastEventElsewhere(s) ==
    /\ cursor # << >>
    /\ LET target == Unwrap(Scene[s].camera).target
       IN  \/ target.kind # "Window"
           \/ target.window # cursor[Len(cursor)].id

\* C6: a cursor-moved event for another window than the camera's, or for a
\* camera that renders to an image, gives the pick source no position: the
\* policy and its cache are those of before the frame, and the ray-cast
\* state is the replayed cache (EveryFrame) or unchanged (OnMouseEvent).
C6_OtherWindowIgnored ==
    frame.ran =>
        \A s \in Sources :
            (Ready(s) /\ LastEventElsewhere(s)) =>
                /\ update_picks[s] = frame.prev_picks[s]
                /\ IF HadPolicy(s, "EveryFrame")
                   THEN cast_method[s] = Screenspace(PrevCached(s))
                   ELSE cast_method[s] = frame.prev_cast[s] /\ ~frame.written[s]

\* C6 witness: an event of window 2 at a position that pick source 1, whose
\* camera is on window 1, does not hold after the frame.
C6_Witness ==
    /\ frame.ran
    /\ cursor = << CursorMoved(2, << F(0), F(3) >>) >>
    /\ resolved[1] = Some(<< F(2), F(2) >>)
    /\ cast_method[1] = Screenspace(<< F(2), F(2) >>)
    /\ cast_method[2] = Screenspace(<< F(2), F(2) >>)

\* No cursor-moved event of the frame is for the window of the camera.
NoMatchingEvent(s) ==
    LET target == Unwrap(Scene[s].camera).target
    IN  \A i \in 1 .. Len(cursor) :
            target.kind # "Window" \/ cursor[i].id # target.window

\* The latest active touch, its Y mirrored against the logical viewport
\* height of the pick source's camera.
MirroredTouch(s) ==
    LET touch == touches[Len(touches)]
        height == Y(Unwrap(LogicalViewportSize(Unwrap(Scene[s].camera))))
    IN  << X(touch), height - Y(touch) >>

\* C7 as stated: in a frame where no cursor-moved event is for the camera's
\* window and a touch is active, the mirrored latest touch is the candidate
\* position, so it is what the frame writes to the ray-cast state.
C7_Original ==
    frame.ran =>
        \A s \in Sources :
            (Ready(s) /\ NoMatchingEvent(s) /\ touches # << >>) =>
                cast_method[s] = Screenspace(MirroredTouch(s))

\* C8: the frame resolves a pick source from its last cursor-moved event
\* alone: a camera without viewport on the event's window gets the event's
\* position as ray-cast state (and as cache under EveryFrame), a camera with
\* a viewport gets its viewport position, or no write when it is outside.
C8_LastEventOnly ==
    (frame.ran /\ cursor # << >>) =>
        \A s \in Sources :
            (Ready(s) /\ ~LastEventElsewhere(s)) =>
                LET camera == Unwrap(Scene[s].camera)
                    last == cursor[Len(cursor)].position
                    pos == IF IsSome(camera.viewport)
                           THEN window_to_viewport(camera, last)
                           ELSE Some(last)
                IN  IF IsSome(pos)
                    THEN /\ cast_method[s] = Screenspace(Unwrap(pos))
                         /\ HadPolicy(s, "EveryFrame") =>
                                update_picks[s] = Some(EveryFrame(Unwrap(pos)))
                    ELSE /\ cast_method[s] = frame.prev_cast[s]
                         /\ update_picks[s] = frame.prev_picks[s]

\* C8 witness: two events of window 1 at different positions in one frame,
\* and the pick sources of window 1 hold the second.
C8_Witness ==
    /\ frame.ran
    /\ cursor = << CursorMoved(1, << F(2), F(2) >>), CursorMoved(1, << F(0), F(3) >>) >>
    /\ cast_method[1] = Screenspace(<< F(0), F(3) >>)
    /\ update_picks[1] = Some(EveryFrame(<< F(0), F(3) >>))
    /\ cast_method[2] = Screenspace(<< F(0), F(3) >>)

\* The frame's latest cursor-moved event is for the window of the camera,
\* the camera has a viewport, and the event's position is not resolved to a
\* position of the viewport.
OutsideViewport(s) ==
    /\ cursor # << >>
    /\ ~LastEventElsewhere(s)
    /\ IsSome(Unwrap(Scene[s].camera).viewport)
    /\ window_to_viewport(Unwrap(Scene[s].camera), cursor[Len(cursor)].position) = None

\* The frame processes the pick source: it has its camera and its policy,
\* the camera is ready, and the event is not outside the viewport.
Processed(s) == Ready(s) /\ ~OutsideViewport(s)

\* The position the frame newly resolves for a processed pick source, if
\* any: from the latest cursor-moved event when it is for the camera's
\* window, from the latest touch when the frame has no event at all.
FramePosition(s) ==
    LET camera == Unwrap(Scene[s].camera)
    IN  IF cursor # << >>
        THEN IF LastEventElsewhere(s) THEN None
             ELSE IF IsSome(camera.viewport)
                  THEN window_to_viewport(camera, cursor[Len(cursor)].position)
                  ELSE Some(cursor[Len(cursor)].position)
        ELSE IF touches # << >> THEN Some(MirroredTouch(s)) ELSE None

\* C14: under EveryFrame, after every frame that processes the pick source,
\* the ray-cast state is Screenspace(cached) for the position the policy
\* carries after the frame; when the frame newly resolves a position p, the
\* cache and the ray-cast state are both p, and otherwise the cache is the
\* one of before the frame.
C14_CacheIsLive ==
    frame.ran =>
        \A s \in Sources :
            (Processed(s) /\ HadPolicy(s, "EveryFrame")) =>
                /\ IsSome(update_picks[s])
                /\ Unwrap(update_picks[s]).kind = "EveryFrame"
                /\ cast_method[s] = Screenspace(Unwrap(Unwrap(update_picks[s]).cached))
                /\ IF IsSome(FramePosition(s))
                   THEN update_picks[s] = Some(EveryFrame(Unwrap(FramePosition(s))))
                   ELSE update_picks[s] = frame.prev_picks[s]

\* C14 witness: a frame whose event gives pick source 1 a position other than
\* the one it cached, after which the cache and the ray-cast state hold it.
C14_Witness ==
    /\ frame.ran
    /\ frame.prev_picks[1] = Some(EveryFrame(<< F(0), F(3) >>))
    /\ FramePosition(1) = Some(<< F(2), F(2) >>)
    /\ update_picks[1] = Some(EveryFrame(<< F(2), F(2) >>))
    /\ cast_method[1] = Screenspace(<< F(2), F(2) >>)

\* C15 as stated: when the frame's latest cursor-moved event is for the
\* camera's window, the camera has a viewport and the position resolves
\* outside it, an EveryFrame pick source has Screenspace(cached) as ray-cast
\* state after the frame, its cache unchanged, and an OnMouseEvent pick
\* source is unchanged.
C15_Original ==
    frame.ran =>
        \A s \in Sources :
            (Ready(s) /\ OutsideViewport(s)) =>
                /\ update_picks[s] = frame.prev_picks[s]
                /\ IF HadPolicy(s, "EveryFrame")
                   THEN cast_method[s] = Screenspace(PrevCached(s))
                   ELSE cast_method[s] = frame.prev_cast[s]

\* C16: a pick source without camera, without policy, or whose camera has
\* no logical viewport size yet is skipped: the frame leaves its ray-cast
\* state and its policy as they were and writes nothing to it.  The frame
\* runs to its end all the same, and every pick source it processes gets
\* its update: the position of the frame when there is one, the replayed
\* cache under EveryFrame.
C16_SkippedUntouched ==
    frame.ran =>
        \A s \in Sources :
            /\ ~Ready(s) =>
                   /\ cast_method[s] = frame.prev_cast[s]
                   /\ update_picks[s] = frame.prev_picks[s]
                   /\ ~frame.written[s]
            /\ (Processed(s) /\ IsSome(FramePosition(s))) =>
                   cast_method[s] = Screenspace(Unwrap(FramePosition(s)))
            /\ (Processed(s) /\ HadPolicy(s, "EveryFrame")) => frame.written[s]

\* C16 witness: a frame with an event of window 1 leaves the three pick
\* sources that lack a camera, a policy or a ready camera as they were,
\* and gives the pick sources of window 1 the event's position.
C16_Witness ==
    /\ frame.ran
    /\ cursor = << CursorMoved(1, << F(2), F(2) >>) >>
    /\ \A s \in { 6, 7, 8 } : ~Ready(s) /\ cast_method[s] = Transform
    /\ cast_method[1] = Screenspace(<< F(2), F(2) >>)
    /\ cast_method[2] = Screenspace(<< F(2), F(2) >>)
    /\ cast_method[5] = Screenspace(<< 0, 0 >>)

\* C19: whatever frames have run, a pick source has the policy variant it
\* was configured with: one without policy has none, one configured
\* OnMouseEvent is OnMouseEvent, and one configured EveryFrame is EveryFrame
\* of some position.
C19_PolicyVariantKept ==
    \A s \in Sources :
        IF IsSome(Scene[s].update_picks)
        THEN /\ IsSome(update_picks[s])
             /\ Unwrap(update_picks[s]).kind = Unwrap(Scene[s].update_picks).kind
             /\ Unwrap(update_picks[s]).kind = "OnMouseEvent" =>
                    update_picks[s] = Some(OnMouseEvent)
             /\ Unwrap(update_picks[s]).kind = "EveryFrame" =>
                    IsSome(Unwrap(update_picks[s]).cached)
        ELSE update_picks[s] = None

\* C19 witness: a frame wrote an event's position to the OnMouseEvent pick
\* source 2, which is still OnMouseEvent, and to the EveryFrame pick source
\* 1, whose cache is no longer the configured one.
C19_Witness ==
    /\ frame.ran
    /\ frame.written[2]
    /\ cast_method[2] = Screenspace(<< F(0), F(3) >>)
    /\ update_picks[2] = Some(OnMouseEvent)
    /\ update_picks[1] = Some(EveryFrame(<< F(0), F(3) >>))
    /\ update_picks[1] # Scene[1].update_picks

\* What a frame leaves of a pick source, told from the pick source's own
\* state before the frame, its own camera and the frame's events and
\* touches: nothing new when the frame does not process it; the frame's
\* position when there is one; else the replayed cache under EveryFrame.
ExpectedCast(s) ==
    IF ~Processed(s) THEN frame.prev_cast[s]
    ELSE IF IsSome(FramePosition(s)) THEN Screenspace(Unwrap(FramePosition(s)))
    ELSE IF HadPolicy(s, "EveryFrame") THEN Screenspace(PrevCached(s))
    ELSE frame.prev_cast[s]

ExpectedPicks(s) ==
    IF ~Processed(s) THEN frame.prev_picks[s]
    ELSE IF IsSome(FramePosition(s)) /\ HadPolicy(s, "EveryFrame")
         THEN Some(EveryFrame(Unwrap(FramePosition(s))))
         ELSE frame.prev_picks[s]

\* C18: at every point of a frame, in whatever order the loop takes the
\* pick sources, the loop body has passed at most once over each; a pick
\* source still to come is as it was before the frame, and a pick source
\* the loop has passed is in the state that its own state before the
\* frame, its own camera and the frame's input give, whichever pick
\* sources were taken before it.
C18_OrderIndependent ==
    frame.ran =>
        \A s \in Sources :
            /\ passes[s] <= 1
            /\ (s \in pending) = (passes[s] = 0)
            /\ s \in pending =>
                   /\ cast_method[s] = frame.prev_cast[s]
                   /\ update_picks[s] = frame.prev_picks[s]
            /\ s \notin pending =>
                   /\ cast_method[s] = ExpectedCast(s)
                   /\ update_picks[s] = ExpectedPicks(s)

\* C18 witness: a frame with an event of window 1 has passed over every pick
\* source but the first, the EveryFrame pick source of window 1: pick source
\* 2 holds the event's position and pick source 1 is still as it was.
C18_Witness ==
    /\ frame.ran
    /\ pending = { 1 }
    /\ cursor = << CursorMoved(1, << F(2), F(2) >>) >>
    /\ cast_method[2] = Screenspace(<< F(2), F(2) >>)
    /\ cast_method[3] = Screenspace(<< 0, 0 >>)
    /\ cast_method[1] = Transform
    /\ update_picks[1] = Some(EveryFrame(<< 0, 0 >>))

(***************************************************************************)
(* Properties of the updater's loop body.                                  *)
(***************************************************************************)
\* The loop body was given a camera and a policy, and the camera is ready.
BodyReady ==
    /\ IsSome(body.camera)
    /\ IsSome(body.update_picks)
    /\ IsSome(LogicalViewportSize(Unwrap(body.camera)))

\* What the loop body left: the ray-cast state, and the candidate position
\* it resolved.
BodyCast == Unwrap(body.out).applied.cast_method
BodyCandidate == Unwrap(body.out).cursor_latest

\* The touch fallback is taken: the frame has no cursor-moved event at all
\* and a touch contact is active.
TouchFallback == BodyReady /\ body.cursor_last = None /\ body.touches # << >>

\* C12: when the touch fallback is taken, the candidate position is the raw
\* position (tx, ty) of the last touch contact with its Y mirrored against
\* the logical viewport height H of the camera, (tx, H - ty), and it is what
\* the frame writes to the ray-cast state; a contact at (10, 20) with
\* H = 400 writes (10, 380).
C12_TouchMirrored ==
    (body.done /\ TouchFallback) =>
        LET touch == body.touches[Len(body.touches)]
            H == Y(Unwrap(LogicalViewportSize(Unwrap(body.camera))))
        IN  /\ BodyCandidate = Some(<< X(touch), H - Y(touch) >>)
            /\ BodyCast = Screenspace(<< X(touch), H - Y(touch) >>)
            /\ (H = F(400) /\ touch = << F(10), F(20) >>) =>
                   BodyCast = Screenspace(<< F(10), F(380) >>)

\* C12 witness: the scenario, a contact at (10, 20) under a camera of logical
\* viewport height 400 in a frame without cursor-moved event, after the loop
\* body wrote (10, 380).
C12_Witness ==
    /\ body.done
    /\ body.camera = Some(TouchScenarioCamera)
    /\ body.update_picks = Some(OnMouseEvent)
    /\ body.cursor_last = None
    /\ body.touches = << TouchScenarioContact >>
    /\ BodyCast = Screenspace(<< F(10), F(380) >>)

(***************************************************************************)
(* Properties of window_to_viewport.                                       *)
(***************************************************************************)
\* The geometry of the camera window_to_viewport was applied to.
W2VMin == Unwrap(PhysicalViewportRect(w2v.camera))[1]
W2VMax == Unwrap(PhysicalViewportRect(w2v.camera))[2]
W2VHeight == Y(Unwrap(PhysicalTargetSize(w2v.camera)))
W2VKnown == IsSome(PhysicalTargetSize(w2v.camera))

\* The Y of the window position mirrored in the target, as an f32.
W2VMirroredY == Max(F(W2VHeight) - Y(w2v.window_position), 0)

W2VOutside ==
    \/ X(w2v.window_position) < F(X(W2VMin))
    \/ X(w2v.window_position) >= F(X(W2VMax))
    \/ W2VMirroredY < F(Y(W2VMin))
    \/ W2VMirroredY >= F(Y(W2VMax))

\* C4 as stated: a window position outside the viewport rectangle gives None.
C4_Original ==
    (w2v.done /\ W2VKnown /\ W2VOutside) => w2v.out = None

\* C5 as stated: a window position inside the viewport rectangle gives
\* Some(p), and p, its Y un-mirrored and offset by min, is the window
\* position.
C5_Original ==
    (w2v.done /\ W2VKnown /\ ~W2VOutside) =>
        /\ IsSome(w2v.out)
        /\ << X(Unwrap(w2v.out)) + F(X(W2VMin)),
              F(W2VHeight) - (Y(Unwrap(w2v.out)) + F(Y(W2VMin))) >> = w2v.window_position

(***************************************************************************)
(* Properties of the cursor synchronizer.                                  *)
(***************************************************************************)
\* The entities with CursorId::Mouse, by their place in the query.
MouseCursors(entities) == { i \in 1 .. Len(entities) : is_mouse(entities[i].id) }

\* C9 as stated: at most one mouse cursor entity exists, and a tick spawns
\* one only when none exists yet.
C9_Original ==
    /\ Cardinality(MouseCursors(cursors)) <= 1
    /\ (tick.ran /\ Len(cursors) > Len(tick.prev)) => MouseCursors(tick.prev) = {}

\* C10 as stated: no mouse cursor entity exists before the first tick in
\* which a window reports a cursor position.
C10_Original == ~observed => MouseCursors(cursors) = {}

\* C10, amended: no mouse cursor entity exists before the first tick that
\* goes past the early return; that tick spawns the mouse cursor with the
\* location it computed, None when no window reports a cursor position, and
\* from then on a mouse cursor exists.
C10_SpawnAtFirstWork ==
    /\ ~worked => MouseCursors(cursors) = {}
    /\ worked => MouseCursors(cursors) # {}
    /\ (tick.ran /\ ~tick.skipped /\ MouseCursors(tick.prev) = {}) =>
           cursors = Append(tick.prev, CursorBundle("Mouse", tick.new_location, FALSE))

\* C10 witness: a tick has spawned the mouse cursor, with no location, and
\* no tick has read a cursor position yet.
C10_Witness ==
    /\ tick.ran
    /\ ~tick.skipped
    /\ ~observed
    /\ MouseCursors(tick.prev) = {}
    /\ \E i \in MouseCursors(cursors) : cursors[i].location = None

\* C11: in the OnEvent mode a tick without cursor-moved and without
\* cursor-left event takes the early return and leaves the cursor entities
\* and their locations as they were; in the continuous mode no tick takes
\* the early return: every tick computes the location and leaves a mouse
\* cursor holding it.
C11_OnEventIdleTick ==
    tick.ran =>
        /\ (mode = "OnEvent" /\ ~moved /\ ~left) =>
               (tick.skipped /\ cursors = tick.prev)
        /\ mode = "Continuous" =>
               /\ ~tick.skipped
               /\ \E i \in MouseCursors(cursors) :
                      cursors[i].location = tick.new_location

\* C11 witness: an event-free tick in the OnEvent mode, skipped while a
\* mouse cursor exists and a window reports a cursor position.
C11_Witness ==
    /\ tick.ran
    /\ mode = "OnEvent"
    /\ ~moved
    /\ ~left
    /\ tick.skipped
    /\ cursors = tick.prev
    /\ MouseCursors(cursors) # {}
    /\ \E w \in Windows : IsSome(windows[w])

\* The cursor entities of before the tick that the tick changed.
Overwritten == { i \in 1 .. Len(tick.prev) : cursors[i] # tick.prev[i] }

\* C17: a tick that is not skipped computes as new location the raw cursor
\* position of the first window that reports one, with that window as
\* target, or None when no window reports a cursor.  When one mouse cursor
\* existed before the tick, it holds the new location after the tick.  The
\* tick overwrites at most one cursor entity, the first mouse cursor of the
\* scan whose location differs, and a tick that overwrites spawns nothing.
C17_MouseLocationSynced ==
    (tick.ran /\ ~tick.skipped) =>
        /\ IF \A w \in Windows : windows[w] = None
           THEN tick.new_location = None
           ELSE \E w \in Windows :
                    /\ IsSome(windows[w])
                    /\ \A v \in Windows : v < w => windows[v] = None
                    /\ tick.new_location =
                           Some([position |-> Unwrap(windows[w]),
                                 target |-> WindowTarget(w)])
        /\ Len(cursors) >= Len(tick.prev)
        /\ Cardinality(MouseCursors(tick.prev)) = 1 =>
               \A i \in MouseCursors(tick.prev) :
                   cursors[i].location = tick.new_location
        /\ Cardinality(Overwritten) <= 1
        /\ \A i \in Overwritten :
               /\ is_mouse(tick.prev[i].id)
               /\ cursors[i] = [tick.prev[i] EXCEPT !.location = tick.new_location]
               /\ \A j \in MouseCursors(tick.prev) :
                      j < i => tick.prev[j].location = tick.new_location
               /\ Len(cursors) = Len(tick.prev)

\* C17 witness: the one mouse cursor held a location of window 1; the cursor
\* has left window 1 and window 2 reports a position, which the tick wrote
\* to the mouse cursor.
C17_Witness ==
    /\ tick.ran
    /\ ~tick.skipped
    /\ Cardinality(MouseCursors(tick.prev)) = 1
    /\ windows[1] = None
    /\ \E i \in MouseCursors(tick.prev) :
           /\ IsSome(tick.prev[i].location)
           /\ Unwrap(tick.prev[i].location).target = WindowTarget(1)
           /\ cursors[i].location =
                  Some(Location(<< F(3), F(0) >>, WindowTarget(2)))

\* C20: a tick, skipped or not, in either mode, leaves every cursor entity
\* that is not the mouse (a touch or a custom cursor) as it was before the
\* tick: its location is its pre-tick location.
C20_NonMouseUntouched ==
    tick.ran =>
        /\ Len(cursors) >= Len(tick.prev)
        /\ \A i \in 1 .. Len(tick.prev) :
               ~is_mouse(tick.prev[i].id) =>
                   /\ cursors[i].id = tick.prev[i].id
                   /\ cursors[i].location = tick.prev[i].location

\* C20 witness: a tick overwrote the location of the mouse cursor, which
\* comes after a custom cursor whose location differs from the new one too,
\* and the custom cursor holds the location it had.
C20_Witness ==
    /\ tick.ran
    /\ ~tick.skipped
    /\ Len(tick.prev) >= 2
    /\ tick.prev[1].id = "Custom"
    /\ tick.prev[1].location # tick.new_location
    /\ cursors[1].location = tick.prev[1].location
    /\ is_mouse(tick.prev[2].id)
    /\ tick.prev[2].location # tick.new_location
    /\ cursors[2].location = tick.new_location

(***************************************************************************)
(* Properties of the pointer registry.                                     *)
(***************************************************************************)
\* The pointers of the world with the given id, by their place in the world.
PointersWithId(id) == { i \in 1 .. Len(pointers) : pointers[i].id = id }

\* The touch pointers of the world.
TouchPointers == { i \in 1 .. Len(pointers) : pointers[i].id.kind = "Touch" }

\* C13: once add_default_pointers has run and its commands are applied, the
\* world holds exactly one Mouse pointer and exactly 30 touch pointers, one
\* Touch(i) for each i of 0..30, and each of them has no location and no
\* button pressed.
C13_DefaultPointers ==
    startup = "done" =>
        /\ Cardinality(PointersWithId(MousePointer)) = 1
        /\ Cardinality(TouchPointers) = 30
        /\ \A i \in 0 .. 29 : Cardinality(PointersWithId(TouchPointer(i))) = 1
        /\ \A i \in PointersWithId(MousePointer) \cup TouchPointers :
               /\ pointers[i].location.location = None
               /\ ~pointers[i].click.is_pressed

\* C13 witness: startup has run in a world that held a custom pointer with a
\* location, and the world holds the 31 default pointers after it.
C13_Witness ==
    /\ startup = "done"
    /\ Len(pointers) = 32
    /\ pointers[1].id = CustomPointer(1)
    /\ IsSome(pointers[1].location.location)
    /\ pointers[2].id = MousePointer
    /\ pointers[32].id = TouchPointer(29)

=============================================================================
